---------------------------- MODULE Spec2Model ----------------------------
(***************************************************************************)
(* A model of src/rt_linux.rs: promotion of a thread to real-time          *)
(* scheduling through the RealtimeKit broker, the RLIMIT_RTTIME            *)
(* negotiation with its rollback, demotion from a captured snapshot, and   *)
(* the snapshot's byte serialization.                                      *)
(*                                                                         *)
(* Machine integers wider than TLC's own are big-endian byte tuples: a     *)
(* u32 is 4 bytes, a u64 or an i64 (two's complement) is 8 bytes.  Casts   *)
(* are then what the hardware does: `as u32` keeps the low 4 bytes, `as    *)
(* u64` of a u32 prepends zero bytes, `as u64` of an i64 keeps the bytes.  *)
(***************************************************************************)
EXTENDS Integers, Sequences, FiniteSets, Bags, TLC

(***************************************************************************)
(* Byte arithmetic                                                         *)
(***************************************************************************)
Zeros(n) == [i \in 1..n |-> 0]

Ones(n) == [i \in 1..n |-> 255]

\* The len-byte big-endian form of a natural n < 2^31.
RECURSIVE ToBytes(_, _)
ToBytes(n, len) ==
    IF len = 0 THEN <<>> ELSE Append(ToBytes(n \div 256, len - 1), n % 256)

\* The value of a byte tuple; defined while it stays below 2^31.
RECURSIVE ToNat(_)
ToNat(b) ==
    IF b = <<>> THEN 0 ELSE ToNat(SubSeq(b, 1, Len(b) - 1)) * 256 + b[Len(b)]

U32(n) == ToBytes(n, 4)

U64(n) == ToBytes(n, 8)

\* Unsigned a < b for two tuples of one length.
RECURSIVE Less(_, _)
Less(a, b) ==
    IF a = <<>> THEN FALSE
    ELSE IF Head(a) # Head(b) THEN Head(a) < Head(b)
    ELSE Less(Tail(a), Tail(b))

Leq(a, b) == ~Less(b, a)

\* std::cmp::min on unsigned integers of one width.
CmpMin(a, b) == IF Less(b, a) THEN b ELSE a

\* The exact product a * m for m < 2^23: Len(a) + 3 bytes.
RECURSIVE MulCarry(_, _, _)
MulCarry(a, m, carry) ==
    IF a = <<>> THEN ToBytes(carry, 3)
    ELSE LET p == a[Len(a)] * m + carry
         IN  Append(MulCarry(SubSeq(a, 1, Len(a) - 1), m, p \div 256), p % 256)

MulExact(a, m) == MulCarry(a, m, 0)

\* The quotient floor(a / d) for 0 < d < 2^23, by long division: Len(a) bytes.
RECURSIVE DivRem(_, _, _)
DivRem(a, d, r) ==
    IF a = <<>> THEN <<>>
    ELSE LET cur == r * 256 + Head(a)
         IN  <<cur \div d>> \o DivRem(Tail(a), d, cur % d)

DivFloor(a, d) == DivRem(a, d, 0)

\* The low n bytes of a tuple (a narrowing `as` cast or a wrapped result).
Low(a, n) == SubSeq(a, Len(a) - n + 1, Len(a))

\* a widened to n bytes with zero bytes (an unsigned widening `as` cast).
ZeroExtend(a, n) == Zeros(n - Len(a)) \o a

\* An i64 in two's complement is negative when its top bit is set.
IsNegative(a) == a[1] >= 128

\* i32 -> i64 sign extension (`i as i64`).
SignExtend(a, n) ==
    (IF IsNegative(a) THEN Ones(n - Len(a)) ELSE Zeros(n - Len(a))) \o a

(***************************************************************************)
(* Identifiers, scheduling policies and error numbers of the platform      *)
(***************************************************************************)
Threads == {1, 2}

\* The number of promotions (calls of make_realtime) one run starts.
MaxPromotions == 2

\* libc::getpid() of the process running this code.
getpid == 4242

\* libc::syscall(SYS_gettid) and libc::pthread_self() of thread t.
gettid(t) == getpid + t

pthread_self(t) == 7000 + 16 * t

\* A process other than this one, and one of its threads.
OtherPid == 5151

SCHED_OTHER == 0

SCHED_FIFO == 1

\* What the broker installs: SCHED_RR | SCHED_RESET_ON_FORK.
SCHED_RR_RESET == 1073741826

RtPolicies == {SCHED_FIFO, SCHED_RR_RESET}

\* The kernel's real-time priority range, sched_get_priority_min/max.
RtPriorities == 1..99

EPERM == 1

ESRCH == 3

EINVAL == 22

RT_PRIO_DEFAULT == U32(10)

\* RLIM_INFINITY of rlimit64: all bits set.
RLIM_INFINITY == Ones(8)

(***************************************************************************)
(* RtPriorityThreadInfoInternal and its byte layout                        *)
(***************************************************************************)
ThreadInfo(pid, thread_id, pthread_id, policy, param) ==
    [pid |-> pid, thread_id |-> thread_id, pthread_id |-> pthread_id,
     policy |-> policy, param |-> param]

\* The w-byte little-endian two's complement form of an integer |n| < 2^31.
LeBytes(n, w) ==
    LET be == IF n >= 0 THEN ToBytes(n, w)
              ELSE [i \in 1..w |-> 255 - ToBytes(-n - 1, w)[i]]
    IN  [i \in 1..w |-> be[w + 1 - i]]

\* The integer a little-endian two's complement byte tuple stands for.
LeValue(b) ==
    LET w == Len(b)
        be == [i \in 1..w |-> b[w + 1 - i]]
    IN  IF be[1] >= 128 THEN -ToNat([i \in 1..w |-> 255 - be[i]]) - 1
        ELSE ToNat(be)

\* repr(C) on Linux x86_64: pid i32 at 0, 4 bytes of padding, thread_id
\* c_long at 8, pthread_id c_ulong at 16, policy c_int at 24, param
\* (sched_priority c_int) at 28; size_of::<Self>() is 32.
SizeOfThreadInfo == 32

\* transmute to bytes: the padding bytes are not initialized, `pad` is
\* whatever they hold.
serialize(self, pad) ==
    LeBytes(self.pid, 4) \o pad \o LeBytes(self.thread_id, 8)
        \o LeBytes(self.pthread_id, 8) \o LeBytes(self.policy, 4)
        \o LeBytes(self.param, 4)

\* deserialize taking param from the bytes of policy.
deserialize_param_from_policy(bytes) ==
    ThreadInfo(LeValue(SubSeq(bytes, 1, 4)), LeValue(SubSeq(bytes, 9, 16)),
               LeValue(SubSeq(bytes, 17, 24)), LeValue(SubSeq(bytes, 25, 28)),
               LeValue(SubSeq(bytes, 25, 28)))

deserialize(bytes) ==
    ThreadInfo(LeValue(SubSeq(bytes, 1, 4)), LeValue(SubSeq(bytes, 9, 16)),
               LeValue(SubSeq(bytes, 17, 24)), LeValue(SubSeq(bytes, 25, 28)),
               LeValue(SubSeq(bytes, 29, 32)))

\* eq as a derived PartialEq would be: every field compared.
eq_derived(self, other) == self = other

\* impl PartialEq: identity is the two thread identifiers.
eq(self, other) ==
    self.thread_id = other.thread_id /\ self.pthread_id = other.pthread_id

(***************************************************************************)
(* The time-slice budget of promote_thread_to_real_time_internal           *)
(***************************************************************************)
\* let buffer_frames = if audio_buffer_frames > 0 { .. } else { hz / 20 }
buffer_frames(audio_buffer_frames, audio_samplerate_hz) ==
    IF Less(U32(0), audio_buffer_frames) THEN audio_buffer_frames
    ELSE DivFloor(audio_samplerate_hz, 20)

\* buffer_frames * 1_000_000 in u32 leaves the type when the exact product
\* needs more than 4 bytes.
MulOverflows(frames) == SubSeq(MulExact(frames, 1000000), 1, 3) # Zeros(3)

\* (buffer_frames * 1_000_000 / audio_samplerate_hz) as u64.  The division
\* panics on a zero divisor; the multiplication panics on overflow in a build
\* with overflow checks and wraps modulo 2^32 in a build without.
budget_us(audio_buffer_frames, audio_samplerate_hz, overflow_checks) ==
    LET frames == buffer_frames(audio_buffer_frames, audio_samplerate_hz)
        product == Low(MulExact(frames, 1000000), 4)
    IN  IF (MulOverflows(frames) /\ overflow_checks)
           \/ audio_samplerate_hz = U32(0)
        THEN [panic |-> TRUE, value |-> U64(0)]
        ELSE [panic |-> FALSE,
              value |-> ZeroExtend(DivFloor(product, ToNat(audio_samplerate_hz)), 8)]

(***************************************************************************)
(* State                                                                   *)
(***************************************************************************)
VARIABLES
    env,      \* the broker's two properties, whether the process holds
              \* CAP_SYS_RESOURCE / CAP_SYS_NICE, which threads it runs and
              \* whether the caller makes one call at a time: fixed in a run
    args,     \* the arguments the caller passes in this run
    rlimit,   \* the process's RLIMIT_RTTIME: [cur, max], each a u64
    sched,    \* per thread: the kernel's [policy, param] of that thread
    pc,       \* per thread: where it is inside make_realtime, or "idle"
    frame,    \* per thread: the locals of the call in progress
    ret,      \* the call that returned last, until the next call starts: its
              \* result and what it did
    infos,    \* the RtPriorityThreadInfoInternal values the caller holds
    handles,  \* the RtPriorityHandleInternal values the caller holds (a bag)
    promotions, \* calls of make_realtime started so far
    wire      \* the snapshot bytes in transit and what was made of them

vars == <<env, args, rlimit, sched, pc, frame, ret, infos, handles, promotions, wire>>

Limit(cur, max) == [cur |-> cur, max |-> max]

Sched(policy, param) == [policy |-> policy, param |-> param]

NoInfo == ThreadInfo(0, 0, 0, 0, 0)

NoFrame ==
    [fn |-> "none", thread_info |-> NoInfo, tid |-> 0, pid |-> 0,
     requested_slice_us |-> U64(0), requested_prio |-> U32(0),
     max_prio |-> U64(0), prio |-> U32(0), max_rttime |-> U64(0),
     new_limit |-> Limit(U64(0), U64(0)), old_limit |-> Limit(U64(0), U64(0)),
     log |-> <<>>]

NoRet ==
    [fn |-> "none", result |-> "none", prio |-> U32(0), thread_info |-> NoInfo,
     frame |-> NoFrame, rlimit |-> Limit(U64(0), U64(0)), errno |-> 0,
     self |-> 0]

\* One entry of a call's log: an interaction with the broker or the kernel.
Event(op, ok, data) == [op |-> op, ok |-> ok, data |-> data]

Ops(f) == [i \in 1..Len(f.log) |-> f.log[i].op]

Did(f, op) == \E i \in 1..Len(f.log) : f.log[i].op = op

DidOk(f, op) == \E i \in 1..Len(f.log) : f.log[i].op = op /\ f.log[i].ok

(***************************************************************************)
(* The broker and the kernel                                               *)
(***************************************************************************)
\* A property reply is a dbus MessageItem or an error of the query itself.
Int32(v) == [type |-> "Int32", v |-> v]

Int64(v) == [type |-> "Int64", v |-> v]

NotInteger == [type |-> "Str", v |-> <<>>]

QueryError == [type |-> "Error", v |-> <<>>]

\* fn item_as_i64
item_as_i64(i) ==
    CASE i.type = "Int32" -> [ok |-> TRUE, v |-> SignExtend(i.v, 8)]
      [] i.type = "Int64" -> [ok |-> TRUE, v |-> i.v]
      [] OTHER -> [ok |-> FALSE, v |-> U64(0)]

\* setrlimit(2): EINVAL when rlim_cur > rlim_max, EPERM when a process without
\* CAP_SYS_RESOURCE raises its hard limit; 0 on success, -1 on failure.
setrlimit64(current, new, privileged) ==
    IF Less(new.max, new.cur) \/ (~privileged /\ Less(current.max, new.max))
    THEN -1 ELSE 0

\* sched_setscheduler(2) as pthread_setschedparam reports it: 0, or the error
\* number (a positive value).  Without CAP_SYS_NICE and with RLIMIT_RTPRIO 0 a
\* thread may go to SCHED_OTHER, or keep its real-time policy at a priority
\* that is not higher.
pthread_setschedparam(current, policy, param, privileged) ==
    IF policy = SCHED_OTHER
    THEN (IF param = 0 THEN 0 ELSE EINVAL)
    ELSE IF policy \in RtPolicies
    THEN (IF param \notin RtPriorities THEN EINVAL
          ELSE IF privileged THEN 0
          ELSE IF policy = current.policy /\ param <= current.param THEN 0
          ELSE EPERM)
    ELSE EINVAL

\* The thread of this process a pthread_t names, if any.
ThreadOf(pthread_id) == {u \in Threads : pthread_self(u) = pthread_id}

\* The thread of this process a (pid, tid) pair names, if any.
ThreadOfTid(pid, tid) == {u \in Threads : pid = getpid /\ gettid(u) = tid}

\* Thread t may start a call: it runs, it is not inside a call, and where the
\* caller makes one call at a time no other thread is inside one.
CanCall(t) ==
    /\ t \in env.live
    /\ pc[t] = "idle"
    /\ env.serial => \A u \in Threads \ {t} : pc[u] \in {"idle", "panicked"}

(***************************************************************************)
(* make_realtime                                                           *)
(***************************************************************************)
\* `x as u64` of a signed integer |x| < 2^31 (tid as u64, pid as u64).
AsU64(x) ==
    IF x >= 0 THEN ToBytes(x, 8) ELSE [i \in 1..8 |-> 255 - ToBytes(-x - 1, 8)[i]]

\* IsInvalidMaximum without the sign test: a negative maximum goes through.
IsInvalidMaximumUnchecked(max) == FALSE

\* if max_prio < 0 { return Err }, the same test for max_rttime.
IsInvalidMaximum(max) == IsNegative(max)

\* clamp_prio without the clamp: the requested priority goes out as it is.
clamp_prio_unclamped(prio, max_prio) == prio

\* let prio = cmp::min(prio, max_prio as u32);
clamp_prio(prio, max_prio) == CmpMin(prio, Low(max_prio, 4))

\* new_limit with the clamped slice as the hard limit too.
new_limit_hard_is_soft(requested_slice_us, max_rttime) ==
    Limit(CmpMin(requested_slice_us, max_rttime),
          CmpMin(requested_slice_us, max_rttime))

\* let rttime_request = cmp::min(requested_slice_us, max_rttime as u64);
\* let new_limit = rlimit64 { rlim_cur: rttime_request, rlim_max: max_rttime as u64 };
new_limit(requested_slice_us, max_rttime) ==
    Limit(CmpMin(requested_slice_us, max_rttime), max_rttime)

\* rtkit_message always using the own-process method.
rtkit_message_own_process(thread, pid, prio) ==
    [method |-> "MakeThreadRealtime", items |-> <<thread, prio>>]

\* fn rtkit_set_realtime: the method call put on the bus.
rtkit_message(thread, pid, prio) ==
    IF AsU64(getpid) = pid
    THEN [method |-> "MakeThreadRealtime", items |-> <<thread, prio>>]
    ELSE [method |-> "MakeThreadRealtimeWithPID", items |-> <<pid, thread, prio>>]

\* The priorities the broker can grant at all: the kernel's real-time range.
Grantable(prio) == Leq(U32(1), prio) /\ Leq(prio, U32(99))

\* What a finished call leaves behind: its result for the caller, and for a
\* successful promote the handle, which the caller now holds.
Return(t, f, result, prio, limit) ==
    /\ pc' = [pc EXCEPT ![t] = "idle"]
    /\ frame' = [frame EXCEPT ![t] = NoFrame]
    /\ ret' = [NoRet EXCEPT !.fn = f.fn, !.result = result, !.prio = prio,
                            !.thread_info = f.thread_info, !.frame = f,
                            !.rlimit = limit, !.self = t]
    /\ handles' = IF result = "Ok" /\ f.fn # "make_realtime"
                  THEN handles (+) SetToBag({f.thread_info})
                  ELSE handles

Logged(f, e) == [f EXCEPT !.log = Append(@, e)]

\* Lines 90-114: the connection, the two property reads and the two clamps.
MakeRealtimeQuery(t) ==
    /\ pc[t] = "query"
    /\ UNCHANGED <<env, args, rlimit, sched, infos, promotions, wire>>
    /\ \E connected \in BOOLEAN :
         LET f0 == Logged(frame[t], Event("connect", connected, <<>>))
             i1 == item_as_i64(env.MaxRealtimePriority)
             f1 == [Logged(f0, Event("get MaxRealtimePriority", i1.ok, i1.v))
                       EXCEPT !.max_prio = i1.v]
             f2 == [f1 EXCEPT !.prio = clamp_prio(f1.requested_prio, i1.v)]
             i2 == item_as_i64(env.RTTimeUSecMax)
             f3 == [Logged(f2, Event("get RTTimeUSecMax", i2.ok, i2.v))
                       EXCEPT !.max_rttime = i2.v]
             f4 == [f3 EXCEPT !.new_limit = new_limit(f3.requested_slice_us, i2.v),
                              !.old_limit = new_limit(f3.requested_slice_us, i2.v)]
         IN  IF ~connected THEN Return(t, f0, "Err", U32(0), rlimit)
             ELSE IF ~i1.ok \/ IsInvalidMaximum(i1.v)
             THEN Return(t, f1, "Err", U32(0), rlimit)
             ELSE IF ~i2.ok \/ IsInvalidMaximum(i2.v)
             THEN Return(t, f3, "Err", U32(0), rlimit)
             ELSE /\ pc' = [pc EXCEPT ![t] = "getrlimit"]
                  /\ frame' = [frame EXCEPT ![t] = f4]
                  /\ UNCHANGED <<ret, handles>>

\* rlimit_failed seeing no failure.
rlimit_failed_never(r) == FALSE

\* if unsafe { libc::getrlimit64(..) } < 0, and the same test of setrlimit64.
rlimit_failed(r) == r < 0

\* Lines 115-118: getrlimit64 reads the limit in force into old_limit, or
\* fails and leaves old_limit as it was.
Getrlimit(t) ==
    /\ pc[t] = "getrlimit"
    /\ UNCHANGED <<env, args, rlimit, sched, infos, promotions, wire>>
    /\ \E r \in {0, -1} :
         LET f == [Logged(frame[t], Event("getrlimit", r = 0, rlimit))
                      EXCEPT !.old_limit = IF r = 0 THEN rlimit ELSE @]
         IN  IF rlimit_failed(r)
             THEN Return(t, f, "Err", U32(0), rlimit)
             ELSE /\ pc' = [pc EXCEPT ![t] = "setrlimit"]
                  /\ frame' = [frame EXCEPT ![t] = f]
                  /\ UNCHANGED <<ret, handles>>

\* Lines 119-121: setrlimit64 installs new_limit, or fails.
Setrlimit(t) ==
    /\ pc[t] = "setrlimit"
    /\ UNCHANGED <<env, args, sched, infos, promotions, wire>>
    /\ LET r == setrlimit64(rlimit, frame[t].new_limit, env.privileged)
           f == Logged(frame[t], Event("setrlimit", r = 0, frame[t].new_limit))
           after == IF r = 0 THEN f.new_limit ELSE rlimit
       IN  /\ rlimit' = after
           /\ IF rlimit_failed(r)
              THEN Return(t, f, "Err", U32(0), after)
              ELSE /\ pc' = [pc EXCEPT ![t] = "request"]
                   /\ frame' = [frame EXCEPT ![t] = f]
                   /\ UNCHANGED <<ret, handles>>

\* is_err taking every reply for a success.
is_err_never(reply) == FALSE

\* if r.is_err(): whether the reply to the request is an error.
is_err(reply) == reply # "granted"

\* Lines 124-126 and 131: rtkit_set_realtime sends the request and blocks for
\* the reply.  The broker grants it (the target thread becomes real-time at
\* the priority asked), refuses it, or does not answer within the timeout.
Request(t) ==
    /\ pc[t] = "request"
    /\ UNCHANGED <<env, args, rlimit, infos, promotions, wire>>
    /\ LET f == frame[t]
           m == rtkit_message(AsU64(f.tid), AsU64(f.pid), f.prio)
       IN  \E reply \in {"granted", "denied", "timeout"} :
             LET g == Logged(f, Event("request", reply = "granted", m))
             IN  /\ reply = "granted" => Grantable(f.prio)
                 /\ sched' = [u \in Threads |->
                                 IF reply = "granted" /\ u \in ThreadOfTid(f.pid, f.tid)
                                 THEN Sched(SCHED_RR_RESET, ToNat(f.prio))
                                 ELSE sched[u]]
                 /\ IF is_err(reply)
                    THEN /\ pc' = [pc EXCEPT ![t] = "rollback"]
                         /\ frame' = [frame EXCEPT ![t] = g]
                         /\ UNCHANGED <<ret, handles>>
                    ELSE Return(t, g, "Ok", f.prio, rlimit)

\* Lines 127-128: setrlimit64 with old_limit, its result not looked at.
Rollback(t) ==
    /\ pc[t] = "rollback"
    /\ UNCHANGED <<env, args, sched, infos, promotions, wire>>
    /\ LET f == frame[t]
           r == setrlimit64(rlimit, f.old_limit, env.privileged)
           after == IF r < 0 THEN rlimit ELSE f.old_limit
       IN  /\ rlimit' = after
           /\ Return(t, Logged(f, Event("rollback", r = 0, f.old_limit)), "Err",
                     U32(0), after)

\* make_realtime called with the caller's arguments.
CallMakeRealtime(t) ==
    /\ CanCall(t)
    /\ promotions < MaxPromotions
    /\ promotions' = promotions + 1
    /\ pc' = [pc EXCEPT ![t] = "query"]
    /\ frame' = [frame EXCEPT ![t] =
                    [NoFrame EXCEPT !.fn = "make_realtime", !.tid = args.tid,
                                    !.pid = args.pid,
                                    !.requested_slice_us = args.requested_slice_us,
                                    !.requested_prio = args.prio]]
    /\ ret' = NoRet
    /\ UNCHANGED <<env, args, rlimit, sched, infos, handles, wire>>

(***************************************************************************)
(* The public functions                                                    *)
(***************************************************************************)
\* fn get_current_thread_info_internal on thread t, where r is what
\* pthread_getschedparam returned (0, or an error number with policy and
\* param left at their zeroed initial values).
get_current_thread_info_internal(t, r, current) ==
    [ok |-> ~(r < 0),
     info |-> ThreadInfo(getpid, gettid(t), pthread_self(t),
                         IF r = 0 THEN current.policy ELSE 0,
                         IF r = 0 THEN current.param ELSE 0)]

\* What pthread_getschedparam may return for the calling thread: 0, or EPERM
\* where a syscall filter refuses the call.
GetschedparamResults == {0, EPERM}

\* A call that returns at once, with nothing in progress left behind.
Returned(t, fn, result, info, errno) ==
    ret' = [NoRet EXCEPT !.fn = fn, !.result = result, !.thread_info = info,
                         !.errno = errno, !.rlimit = rlimit, !.self = t]

GetCurrentThreadInfo(t) ==
    /\ CanCall(t)
    /\ \E r \in GetschedparamResults :
         LET c == get_current_thread_info_internal(t, r, sched[t])
         IN  /\ infos' = IF c.ok THEN infos \cup {c.info} ELSE infos
             /\ Returned(t, "get_current_thread_info",
                         IF c.ok THEN "Ok" ELSE "Err", c.info, r)
    /\ UNCHANGED <<env, args, promotions, rlimit, sched, pc, frame, handles, wire>>

\* Lines 196-206 of promote_thread_to_real_time_internal: the budget, the
\* handle, and the call of make_realtime; a panic ends the thread.
PromoteBody(t, fn, thread_info) ==
    \E overflow_checks \in BOOLEAN :
      LET b == budget_us(args.audio_buffer_frames, args.audio_samplerate_hz,
                         overflow_checks)
      IN  IF b.panic
          THEN /\ pc' = [pc EXCEPT ![t] = "panicked"]
               /\ Returned(t, fn, "panic", thread_info, 0)
               /\ UNCHANGED frame
          ELSE /\ pc' = [pc EXCEPT ![t] = "query"]
               /\ frame' = [frame EXCEPT ![t] =
                               [NoFrame EXCEPT !.fn = fn,
                                               !.thread_info = thread_info,
                                               !.tid = thread_info.thread_id,
                                               !.pid = thread_info.pid,
                                               !.requested_slice_us = b.value,
                                               !.requested_prio = RT_PRIO_DEFAULT]]
               /\ ret' = NoRet

PromoteThread(t, thread_info) ==
    /\ CanCall(t)
    /\ promotions < MaxPromotions
    /\ promotions' = promotions + 1
    /\ PromoteBody(t, "promote_thread", thread_info)
    /\ UNCHANGED <<env, args, rlimit, sched, infos, handles, wire>>

PromoteCurrent(t) ==
    /\ CanCall(t)
    /\ promotions < MaxPromotions
    /\ promotions' = promotions + 1
    /\ \E r \in GetschedparamResults :
         LET c == get_current_thread_info_internal(t, r, sched[t])
         IN  IF c.ok
             THEN PromoteBody(t, "promote_current", c.info)
             ELSE /\ Returned(t, "promote_current", "Err", c.info, r)
                  /\ UNCHANGED <<pc, frame>>
    /\ UNCHANGED <<env, args, rlimit, sched, infos, handles, wire>>

\* The pthread_setschedparam call both demote functions make, and their
\* test of what it returned.
Restore(t, fn, thread_info) ==
    LET target == ThreadOf(thread_info.pthread_id)
        r == IF target = {} THEN ESRCH
             ELSE pthread_setschedparam(sched[CHOOSE u \in target : TRUE],
                                        thread_info.policy, thread_info.param,
                                        env.privileged)
    IN  /\ sched' = [u \in Threads |->
                        IF u \in target /\ r = 0
                        THEN Sched(thread_info.policy, thread_info.param)
                        ELSE sched[u]]
        /\ Returned(t, fn, IF r < 0 THEN "Err" ELSE "Ok", thread_info, r)
        /\ UNCHANGED pc

\* IdentityCheck with the assertion left out.
IdentityCheckSkipped(t, thread_info) == TRUE

\* assert!(pthread_self() == rt_priority_handle.thread_info.pthread_id)
IdentityCheck(t, thread_info) == pthread_self(t) = thread_info.pthread_id

\* MoveHandle for a handle passed by reference: the caller keeps it.
MoveHandleBorrowed(held, h) == held

\* rt_priority_handle: RtPriorityHandleInternal is taken by value, and the
\* type is neither Clone nor Copy: the caller gives the handle up at the call.
MoveHandle(held, h) == held (-) SetToBag({h})

DemoteCurrent(t, h) ==
    /\ CanCall(t)
    /\ handles' = MoveHandle(handles, h)
    /\ IF IdentityCheck(t, h)
       THEN Restore(t, "demote_current", h)
       ELSE /\ pc' = [pc EXCEPT ![t] = "panicked"]
            /\ Returned(t, "demote_current", "panic", h, 0)
            /\ UNCHANGED sched
    /\ UNCHANGED <<env, args, promotions, rlimit, frame, infos, wire>>

DemoteThread(t, h) ==
    /\ CanCall(t)
    /\ handles' = MoveHandle(handles, h)
    /\ Restore(t, "demote_thread", h)
    /\ UNCHANGED <<env, args, promotions, rlimit, frame, infos, wire>>

(***************************************************************************)
(* Snapshots on the wire                                                   *)
(***************************************************************************)
\* What the four padding bytes of a snapshot may hold.
Paddings == {Zeros(4), Ones(4), <<222, 173, 190, 239>>}

Serialize ==
    /\ wire.stage = "snapshot"
    /\ \E pad \in Paddings :
         wire' = [wire EXCEPT !.stage = "bytes", !.bytes = serialize(wire.info, pad)]
    /\ UNCHANGED <<env, args, rlimit, sched, pc, frame, ret, infos, handles, promotions>>

Deserialize ==
    /\ wire.stage = "bytes"
    /\ wire' = [wire EXCEPT !.stage = "received", !.received = deserialize(wire.bytes)]
    /\ UNCHANGED <<env, args, rlimit, sched, pc, frame, ret, infos, handles, promotions>>

Compare ==
    /\ ~wire.compared
    /\ wire' = [wire EXCEPT !.compared = TRUE, !.equal = eq(wire.info, wire.other)]
    /\ UNCHANGED <<env, args, rlimit, sched, pc, frame, ret, infos, handles, promotions>>

(***************************************************************************)
(* Specifications                                                          *)
(***************************************************************************)
\* A snapshot received from another process.
ForeignInfo == ThreadInfo(OtherPid, OtherPid + 1, pthread_self(1) + 8, SCHED_OTHER, 0)

IdleWire ==
    [stage |-> "idle", info |-> NoInfo, other |-> NoInfo, bytes |-> <<>>,
     received |-> NoInfo, compared |-> TRUE, equal |-> FALSE]

Env(max_prio, max_rttime, privileged, live) ==
    [MaxRealtimePriority |-> max_prio, RTTimeUSecMax |-> max_rttime,
     privileged |-> privileged, live |-> live, serial |-> TRUE]

Args(frames, rate, slice, prio, tid, pid) ==
    [audio_buffer_frames |-> frames, audio_samplerate_hz |-> rate,
     requested_slice_us |-> slice, prio |-> prio, tid |-> tid, pid |-> pid]

\* The state of a process that has made no call yet.
Start(e, a, limit, s) ==
    /\ env = e
    /\ args = a
    /\ rlimit = limit
    /\ sched = s
    /\ pc = [t \in Threads |-> "idle"]
    /\ frame = [t \in Threads |-> NoFrame]
    /\ ret = NoRet
    /\ infos = {ForeignInfo}
    /\ handles = EmptyBag
    /\ promotions = 0

\* The limits a process may start with: unlimited (the default), and a
\* limit an earlier promotion left.
Unlimited == Limit(RLIM_INFINITY, RLIM_INFINITY)

\* A limit below what the broker allows, left by an earlier setup.
LowLimit == Limit(U64(1000), U64(1000))

Normal == Sched(SCHED_OTHER, 0)

AllNormal == [t \in Threads |-> Normal]

\* The audio parameters and broker of an ordinary run: 512 frames at 48 kHz,
\* rtkit's defaults MaxRealtimePriority 20 and RTTimeUSecMax 200000.
AudioArgs(frames, rate) == Args(frames, rate, U64(0), U32(0), 0, 0)

\* Two threads of an unprivileged process using the public functions, thread
\* 1 starting normal or real-time; and three runs in which the broker or the
\* kernel refuses something.
Init ==
    /\ wire = IdleWire
    /\ \/ \E s1 \in {Normal, Sched(SCHED_FIFO, 5)} :
            Start(Env(Int32(U32(20)), Int64(U64(200000)), FALSE, Threads),
                  AudioArgs(U32(512), U32(48000)), Unlimited,
                  [AllNormal EXCEPT ![1] = s1])
       \/ \E e \in {Env(Int32(Ones(4)), Int64(U64(200000)), FALSE, Threads),
                    Env(Int32(U32(20)), QueryError, FALSE, Threads)} :
            Start(e, AudioArgs(U32(512), U32(48000)), Unlimited, AllNormal)
       \/ Start(Env(Int32(U32(20)), Int64(U64(200000)), FALSE, Threads),
                AudioArgs(U32(512), U32(48000)), LowLimit, AllNormal)

Next ==
    \/ \E t \in Threads : GetCurrentThreadInfo(t)
    \/ \E t \in Threads : PromoteCurrent(t)
    \/ \E t \in Threads, thread_info \in infos : PromoteThread(t, thread_info)
    \/ \E t \in Threads : MakeRealtimeQuery(t)
    \/ \E t \in Threads : Getrlimit(t)
    \/ \E t \in Threads : Setrlimit(t)
    \/ \E t \in Threads : Request(t)
    \/ \E t \in Threads : Rollback(t)
    \/ \E t \in Threads, h \in BagToSet(handles) : DemoteCurrent(t, h)
    \/ \E t \in Threads, h \in BagToSet(handles) : DemoteThread(t, h)

Spec == Init /\ [][Next]_vars

\* promote_thread_to_real_time_internal over a range of audio parameters, on
\* one thread.
BufferFrames == {U32(0), U32(1), U32(512), U32(4294), U32(4295), U32(8192), Ones(4)}

SampleRates ==
    {U32(0), U32(1), U32(19), U32(20), U32(44100), U32(48000), U32(96000),
     U32(192000)}

InitBudget ==
    /\ wire = IdleWire
    /\ \E frames \in BufferFrames, rate \in SampleRates :
         Start(Env(Int32(U32(20)), Int64(U64(200000)), FALSE, {1}),
               AudioArgs(frames, rate), Unlimited, AllNormal)

SpecBudget == InitBudget /\ [][Next]_vars

\* make_realtime on one thread, called with a range of priorities against a
\* range of broker maxima, and with a range of slices against a range of
\* broker budgets and prior limits.
Priorities == {U32(0), U32(1), U32(10), U32(99), Ones(4)}

\* 2^32 + 5 and i64::MAX among the Int64 replies.
PriorityReplies ==
    {Int32(U32(0)), Int32(U32(5)), Int32(U32(20)), Int32(Ones(4)),
     Int64(U64(20)), Int64(<<0, 0, 0, 1, 0, 0, 0, 5>>),
     Int64(<<127>> \o Ones(7)), Int64(Ones(8)), NotInteger, QueryError}

Slices == {U64(0), U64(10666), U64(200000), <<0, 0, 0, 0>> \o Ones(4)}

BudgetReplies ==
    {Int64(U64(0)), Int64(U64(200000)), Int32(U32(200000)),
     Int64(<<127>> \o Ones(7)), Int64(Ones(8)), Int32(Ones(4)), NotInteger,
     QueryError}

PriorLimits == {Unlimited, LowLimit, Limit(U64(200000), U64(200000))}

Targets == {<<gettid(1), getpid>>, <<OtherPid + 1, OtherPid>>}

InitMakeRealtime ==
    /\ wire = IdleWire
    /\ \/ \E prio \in Priorities, mp \in PriorityReplies, target \in Targets :
            Start(Env(mp, Int64(U64(200000)), FALSE, {1}),
                  Args(U32(0), U32(0), U64(10666), prio, target[1], target[2]),
                  Unlimited, AllNormal)
       \/ \E slice \in Slices, mt \in BudgetReplies, limit \in PriorLimits,
             privileged \in BOOLEAN :
            Start(Env(Int32(U32(20)), mt, privileged, {1}),
                  Args(U32(0), U32(0), slice, RT_PRIO_DEFAULT, gettid(1), getpid),
                  limit, AllNormal)

NextMakeRealtime ==
    \/ \E t \in Threads : CallMakeRealtime(t)
    \/ \E t \in Threads : MakeRealtimeQuery(t)
    \/ \E t \in Threads : Getrlimit(t)
    \/ \E t \in Threads : Setrlimit(t)
    \/ \E t \in Threads : Request(t)
    \/ \E t \in Threads : Rollback(t)

SpecMakeRealtime == InitMakeRealtime /\ [][NextMakeRealtime]_vars

\* Two threads of one process promoting themselves with nothing that orders
\* their calls, against a broker that grants or refuses each request; the
\* process may or may not raise hard limits, and starts unlimited or with a
\* limit an earlier promotion left.
Concurrent(e) == [e EXCEPT !.serial = FALSE]

InitConcurrent ==
    /\ wire = IdleWire
    /\ \E privileged \in BOOLEAN,
          limit \in {Unlimited, Limit(U64(200000), U64(200000))} :
         Start(Concurrent(Env(Int32(U32(20)), Int64(U64(200000)), privileged,
                              Threads)),
               AudioArgs(U32(512), U32(48000)), limit, AllNormal)

NextConcurrent ==
    \/ \E t \in Threads : PromoteCurrent(t)
    \/ \E t \in Threads : MakeRealtimeQuery(t)
    \/ \E t \in Threads : Getrlimit(t)
    \/ \E t \in Threads : Setrlimit(t)
    \/ \E t \in Threads : Request(t)
    \/ \E t \in Threads : Rollback(t)

SpecConcurrent == InitConcurrent /\ [][NextConcurrent]_vars

\* serialize, deserialize and eq over a range of snapshots.
Snapshots ==
    {ThreadInfo(pid, tid, pthread_id, s.policy, s.param) :
        pid \in {getpid, OtherPid}, tid \in {gettid(1), gettid(2)},
        pthread_id \in {pthread_self(1), pthread_self(2)},
        s \in {Normal, Sched(SCHED_RR_RESET, 10), Sched(-1, -1)}}

InitSnapshot ==
    /\ \E info \in Snapshots, other \in Snapshots :
         wire = [IdleWire EXCEPT !.stage = "snapshot", !.info = info,
                                 !.other = other, !.compared = FALSE]
    /\ Start(Env(Int32(U32(20)), Int64(U64(200000)), FALSE, {}),
             AudioArgs(U32(0), U32(0)), Unlimited, AllNormal)

NextSnapshot == Serialize \/ Deserialize \/ Compare

SpecSnapshot == InitSnapshot /\ [][NextSnapshot]_vars

(***************************************************************************)
(* Claims                                                                  *)
(***************************************************************************)
\* The frames of the calls in progress and of the call that returned last.
Frames == {frame[t] : t \in Threads} \cup {ret.frame}

\* The requests a call has put on the bus.
Requests(f) == {f.log[i].data : i \in {k \in 1..Len(f.log) : f.log[k].op = "request"}}

\* A property reply that make_realtime must refuse: a failed query, a value
\* that is no integer, or a negative integer.
BadReply(reply) ==
    \/ reply.type \notin {"Int32", "Int64"}
    \/ reply.v[1] >= 128

\* C1: when make_realtime set the new RLIMIT_RTTIME and the broker's
\* promotion call then failed (refused or timed out), the limit in force when
\* make_realtime returns its error is the (soft, hard) pair getrlimit read
\* before the attempt.
C1_RollbackRestoresLimit ==
    (/\ ret.fn = "make_realtime"
     /\ ret.result = "Err"
     /\ DidOk(ret.frame, "setrlimit")
     /\ Did(ret.frame, "request")
     /\ ~DidOk(ret.frame, "request"))
        => ret.rlimit = ret.frame.old_limit

\* C2: with a negative MaxRealtimePriority or RTTimeUSecMax, or a failed
\* query of either, make_realtime returns an error, never calls setrlimit and
\* never sends a promotion request.
C2_InvalidMaximumFailsUntouched ==
    (BadReply(env.MaxRealtimePriority) \/ BadReply(env.RTTimeUSecMax))
        => /\ ret.result \in {"none", "Err"}
           /\ \A f \in Frames :
                /\ ~Did(f, "setrlimit")
                /\ ~Did(f, "rollback")
                /\ ~Did(f, "request")

\* C2's case: the priority maximum was fine, the budget maximum came back
\* negative, and make_realtime has returned.
C2_Witness ==
    /\ ret.fn = "make_realtime"
    /\ ret.result = "Err"
    /\ ~BadReply(env.MaxRealtimePriority)
    /\ env.RTTimeUSecMax.type \in {"Int32", "Int64"}
    /\ BadReply(env.RTTimeUSecMax)
    /\ DidOk(ret.frame, "get RTTimeUSecMax")

\* C3: with a broker maximum M >= 0, the priority in every promotion request
\* and the priority make_realtime returns on success are at most M.
C3_PriorityAtMostMaximum ==
    ~BadReply(env.MaxRealtimePriority) =>
        LET M == item_as_i64(env.MaxRealtimePriority).v
        IN  /\ \A f \in Frames : \A m \in Requests(f) :
                  Leq(ZeroExtend(m.items[Len(m.items)], 8), M)
            /\ ret.result = "Ok" => Leq(ZeroExtend(ret.prio, 8), M)

\* C3's case: a granted promotion whose requested priority was above M.
C3_Witness ==
    /\ ret.fn = "make_realtime"
    /\ ret.result = "Ok"
    /\ Less(item_as_i64(env.MaxRealtimePriority).v, ZeroExtend(args.prio, 8))
    /\ Requests(ret.frame) # {}

\* The mathematical floor(frames * 1_000_000 / rate) for rate > 0, to 8 bytes.
ExactBudget(frames, rate) ==
    ZeroExtend(DivFloor(MulExact(frames, 1000000), ToNat(rate)), 8)

\* The frames of promote calls, in progress or returned last.
PromoteFrames == {f \in Frames : f.fn \in {"promote_current", "promote_thread"}}

Promoting == ret.fn \in {"promote_current", "promote_thread"}

\* C4: for audio_buffer_frames > 0 and audio_samplerate_hz > 0 the promote
\* functions do not abort, and the slice they pass to make_realtime is
\* floor(audio_buffer_frames * 1_000_000 / audio_samplerate_hz).
C4_BudgetIsExact ==
    (Less(U32(0), args.audio_buffer_frames) /\ Less(U32(0), args.audio_samplerate_hz))
        => /\ ~(Promoting /\ ret.result = "panic")
           /\ \A f \in PromoteFrames :
                f.requested_slice_us
                    = ExactBudget(args.audio_buffer_frames, args.audio_samplerate_hz)

\* C5: for audio_buffer_frames = 0 and audio_samplerate_hz > 0 the promote
\* functions do not abort, and the slice they pass to make_realtime is
\* floor(floor(audio_samplerate_hz / 20) * 1_000_000 / audio_samplerate_hz).
C5_DefaultBudgetIsExact ==
    (args.audio_buffer_frames = U32(0) /\ Less(U32(0), args.audio_samplerate_hz))
        => /\ ~(Promoting /\ ret.result = "panic")
           /\ \A f \in PromoteFrames :
                f.requested_slice_us
                    = ExactBudget(DivFloor(args.audio_samplerate_hz, 20),
                                  args.audio_samplerate_hz)

Demotes == {"demote_current", "demote_thread"}

\* C6: after a capture on thread T, a promote with that snapshot that
\* returned Ok and a demote of its handle on T that returned Ok, T's policy
\* and parameters are those of the snapshot.
C6_DemoteRestoresSnapshot ==
    (/\ ret.fn \in Demotes
     /\ ret.result = "Ok"
     /\ ret.thread_info.pid = getpid
     /\ ret.thread_info.thread_id = gettid(ret.self)
     /\ ret.thread_info.pthread_id = pthread_self(ret.self))
        => sched[ret.self] = Sched(ret.thread_info.policy, ret.thread_info.param)

\* C7, as claimed: either demote function, called on thread t with a handle
\* whose pthread_id is not t's, does not return Ok and changes no thread's
\* policy or parameters.
C7_MismatchedDemoteRejected ==
    [][\A t \in Threads, h \in BagToSet(handles) :
          ((DemoteCurrent(t, h) \/ DemoteThread(t, h))
              /\ h.pthread_id # pthread_self(t))
            => (ret'.result # "Ok" /\ sched' = sched)]_vars

\* C7, amended: demote_current_thread_from_real_time_internal called with
\* such a handle is stopped by its assertion and changes no thread's policy
\* or parameters; demote_thread_from_real_time_internal makes no identity
\* check, and the only thread it can change is the one the handle's
\* pthread_id names, to the snapshot's policy and parameters.
C7_MismatchedDemoteCurrentRejected ==
    [][\A t \in Threads, h \in BagToSet(handles) :
          /\ (DemoteCurrent(t, h) /\ h.pthread_id # pthread_self(t))
                => (ret'.result = "panic" /\ sched' = sched)
          /\ (DemoteThread(t, h) /\ h.pthread_id # pthread_self(t))
                => \A u \in Threads :
                      sched'[u] # sched[u]
                        => /\ pthread_self(u) = h.pthread_id
                           /\ sched'[u] = Sched(h.policy, h.param)]_vars

\* C7's case: demote_current was called with another thread's handle.
C7_Witness ==
    /\ ret.fn = "demote_current"
    /\ ret.result = "panic"
    /\ ret.thread_info.pthread_id # pthread_self(ret.self)
    /\ ret.thread_info.pid = getpid

\* Every step make_realtime needs for a promotion, as its log shows them:
\* both properties read as non-negative integers, the limit read and set, and
\* the request granted.
Negotiated(f) ==
    /\ \A op \in {"get MaxRealtimePriority", "get RTTimeUSecMax"} :
         \E i \in 1..Len(f.log) :
            f.log[i].op = op /\ f.log[i].ok /\ f.log[i].data[1] < 128
    /\ DidOk(f, "getrlimit")
    /\ DidOk(f, "setrlimit")
    /\ DidOk(f, "request")

\* C8: a promote function returns Ok only after every step of the
\* negotiation succeeded, and the caller comes to hold a handle only by such
\* a return.
C8_HandleOnlyOnSuccess ==
    /\ [](Promoting /\ ret.result = "Ok" => Negotiated(ret.frame))
    /\ [][\A h \in BagToSet(handles') :
             CopiesIn(h, handles') > CopiesIn(h, handles)
                => /\ Promoting'
                   /\ ret'.result = "Ok"
                   /\ ret'.thread_info = h
                   /\ Negotiated(ret'.frame)]_vars

\* C8's case: a promote returned Ok and the caller holds its handle.
C8_Witness ==
    /\ Promoting
    /\ ret.result = "Ok"
    /\ BagIn(ret.thread_info, handles)

\* C9: deserialize(serialize(s)) is s, field by field, whatever the padding
\* bytes hold, and serialize yields size_of::<Self>() bytes.
C9_RoundTrip ==
    /\ wire.stage \in {"bytes", "received"} => Len(wire.bytes) = SizeOfThreadInfo
    /\ wire.stage = "received"
          => /\ wire.received = wire.info
             /\ eq(wire.received, wire.info)

\* C9's case: a snapshot with negative fields went through bytes whose
\* padding was not zero.
C9_Witness ==
    /\ wire.stage = "received"
    /\ SubSeq(wire.bytes, 5, 8) # Zeros(4)
    /\ wire.info.policy < 0
    /\ wire.info.pid = OtherPid

\* C10: two snapshots are equal exactly when thread_id and pthread_id both
\* match; pid, policy and param play no part.
C10_EqualityIsIdentity ==
    wire.compared =>
        (wire.equal <=> (/\ wire.info.thread_id = wire.other.thread_id
                         /\ wire.info.pthread_id = wire.other.pthread_id))

\* C10's case: two snapshots of one thread that differ in pid, policy and
\* param were compared.
C10_Witness ==
    /\ wire.compared
    /\ wire.stage # "idle"
    /\ wire.equal
    /\ wire.info.pid # wire.other.pid
    /\ wire.info.policy # wire.other.policy
    /\ wire.info.param # wire.other.param

\* C11, as claimed: no restore from a snapshot occurs a second time, not
\* even through a second handle obtained for the same snapshot: a demote
\* whose restore the kernel accepted is never followed by another accepted
\* demote with an equal snapshot.
C11_SnapshotRestoredOnce ==
    [][\A t \in Threads, h \in BagToSet(handles) :
          ((DemoteCurrent(t, h) \/ DemoteThread(t, h)) /\ ret'.errno = 0)
            => ~(/\ ret.fn \in Demotes
                 /\ ret.result = "Ok"
                 /\ ret.errno = 0
                 /\ ret.thread_info = h)]_vars

\* C11, amended: each handle is demoted at most once.  A demote gives up
\* exactly one handle whether the restore succeeds, is refused or the call
\* aborts, and the caller never holds more handles than promotions were
\* started; two promotions made with copies of one snapshot yield two handles,
\* and each of them can be demoted once.
C11_HandleDemotedOnce ==
    /\ [](BagCardinality(handles) <= promotions)
    /\ [][\A t \in Threads, h \in BagToSet(handles) :
             (DemoteCurrent(t, h) \/ DemoteThread(t, h))
                => /\ CopiesIn(h, handles') = CopiesIn(h, handles) - 1
                   /\ BagCardinality(handles') = BagCardinality(handles) - 1]_vars

\* C11's case: the kernel refused the restore of a demote, and the handle is
\* gone all the same.
C11_Witness ==
    /\ ret.fn \in Demotes
    /\ ret.errno # 0
    /\ ret.thread_info.pid = getpid
    /\ ~BagIn(ret.thread_info, handles)

\* C12: whenever pthread_setschedparam reports failure to a demote function
\* (a non-zero error number), the demote returns Err; a demote returns Ok
\* only when the thread its handle names has the snapshot's policy and
\* parameters.
C12_DemoteReportsRejection ==
    (ret.fn \in Demotes /\ ret.result # "panic")
        => /\ ret.errno # 0 => ret.result = "Err"
           /\ ret.result = "Ok"
                => \A u \in ThreadOf(ret.thread_info.pthread_id) :
                      sched[u] = Sched(ret.thread_info.policy, ret.thread_info.param)

\* C13: whenever pthread_getschedparam reports failure (a non-zero error
\* number), get_current_thread_info_internal returns Err and the caller gets
\* no snapshot.
C13_CaptureReportsFailure ==
    (ret.fn = "get_current_thread_info" /\ ret.errno # 0)
        => /\ ret.result = "Err"
           /\ ret.thread_info \notin infos

\* The limits a call installed with its setrlimit64(new_limit).
Installed(f) ==
    {f.log[i].data : i \in {k \in 1..Len(f.log) :
                               f.log[k].op = "setrlimit" /\ f.log[k].ok}}

\* C14: every limit make_realtime installs has the soft limit
\* min(requested_slice_us, RTTimeUSecMax) and the hard limit RTTimeUSecMax,
\* hence soft <= hard; it is the limit in force when the request goes out;
\* and a call that installed a limit, a soft limit of 0 included, has sent its
\* promotion request by the time it returns.
C14_NegotiatedLimitShape ==
    \A t \in Threads \cup {0} :
      LET f == IF t = 0 THEN ret.frame ELSE frame[t]
          M == item_as_i64(env.RTTimeUSecMax).v
          soft == IF Less(f.requested_slice_us, M) THEN f.requested_slice_us ELSE M
      IN  /\ \A l \in Installed(f) :
                l = Limit(soft, M) /\ ~Less(l.max, l.cur)
          /\ (t # 0 /\ pc[t] = "request") => rlimit = Limit(soft, M)
          /\ (t = 0 /\ Installed(f) # {}) => Did(f, "request")

\* C14's case: the broker's maximum clamped a non-zero slice to 0, the limit
\* (0, 0) was installed and the request was sent.
C14_Witness ==
    /\ ret.fn = "make_realtime"
    /\ ret.frame.requested_slice_us # U64(0)
    /\ Installed(ret.frame) = {Limit(U64(0), U64(0))}
    /\ Requests(ret.frame) # {}

\* The interactions of make_realtime in the order of its code.
Protocol ==
    <<"connect", "get MaxRealtimePriority", "get RTTimeUSecMax", "getrlimit",
      "setrlimit", "request", "rollback">>

\* C15: the interactions of every execution of make_realtime are a prefix of
\* connect, query max priority, query max budget, read the limit, set the
\* limit, send the request, roll back: so each happens at most once and in
\* that order; the request is sent only after the limit was read and set
\* successfully; and a failed getrlimit or setrlimit ends the call with an
\* error, no request and no rollback write.
C15_ProtocolOrder ==
    /\ \A f \in Frames :
         /\ Len(f.log) <= Len(Protocol)
         /\ Ops(f) = SubSeq(Protocol, 1, Len(f.log))
         /\ Did(f, "request") => DidOk(f, "getrlimit") /\ DidOk(f, "setrlimit")
         /\ \A op \in {"getrlimit", "setrlimit"} :
              (Did(f, op) /\ ~DidOk(f, op))
                 => /\ f = ret.frame
                    /\ ~Did(f, "request")
                    /\ ~Did(f, "rollback")
    /\ \A op \in {"getrlimit", "setrlimit"} :
         (Did(ret.frame, op) /\ ~DidOk(ret.frame, op)) => ret.result = "Err"

\* C15's case: setrlimit64 refused the new limit and make_realtime returned.
C15_Witness ==
    /\ ret.fn = "make_realtime"
    /\ DidOk(ret.frame, "getrlimit")
    /\ Did(ret.frame, "setrlimit")
    /\ ~DidOk(ret.frame, "setrlimit")
    /\ ret.rlimit = LowLimit

\* C16: the promotion request of a promote call is MakeThreadRealtime with
\* the items (thread id, priority) exactly when the snapshot's pid is the
\* calling process's, and otherwise MakeThreadRealtimeWithPID with the items
\* (pid, thread id, priority); the thread id is the snapshot's thread_id, and
\* the pthread_id is in no request.
C16_MessageShape ==
    \A f \in PromoteFrames : \A m \in Requests(f) :
       LET s == f.thread_info
       IN  /\ (m.method = "MakeThreadRealtime") <=> (s.pid = getpid)
           /\ (m.method = "MakeThreadRealtimeWithPID") <=> (s.pid # getpid)
           /\ s.pid = getpid
                => m.items = <<ToBytes(s.thread_id, 8), f.prio>>
           /\ s.pid # getpid
                => m.items = <<ToBytes(s.pid, 8), ToBytes(s.thread_id, 8), f.prio>>
           /\ \A i \in 1..Len(m.items) : m.items[i] # ToBytes(s.pthread_id, 8)

\* C16's case: a request went out for a snapshot of another process, and the
\* call has returned.
C16_Witness ==
    /\ ret.fn = "promote_thread"
    /\ ret.thread_info.pid = OtherPid
    /\ Requests(ret.frame) # {}
    /\ ret.result = "Ok"

\* C17: for a broker maximum M >= 0 anywhere in the signed 64-bit range,
\* make_realtime returns on success exactly min(requested priority, M), and
\* that is the priority in its request.
C17_GrantedIsMinimum ==
    (ret.fn = "make_realtime" /\ ret.result = "Ok")
        => LET M == item_as_i64(env.MaxRealtimePriority).v
               wanted == ZeroExtend(args.prio, 8)
               least == IF Less(wanted, M) THEN wanted ELSE M
           IN  /\ ZeroExtend(ret.prio, 8) = least
               /\ \A m \in Requests(ret.frame) :
                     ZeroExtend(m.items[Len(m.items)], 8) = least

\* A thread inside its limit negotiation: it has read RLIMIT_RTTIME and has
\* not yet returned.
Negotiating(t) == pc[t] \in {"setrlimit", "request", "rollback"}

\* C18: the limit negotiations of two promotions in one process never
\* interleave: no thread reads RLIMIT_RTTIME while another is between its
\* read and its return.
C18_NegotiationsExclusive ==
    Cardinality({t \in Threads : Negotiating(t)}) <= 1

\* C19: when of two promotions with the same arguments one was accepted and
\* the other, the last to return, was refused by the broker, then once both
\* have returned RLIMIT_RTTIME is the limit the accepted promotion installed.
C19_AcceptedLimitStays ==
    (/\ \A t \in Threads : pc[t] = "idle"
     /\ promotions = 2
     /\ BagCardinality(handles) = 1
     /\ Promoting
     /\ ret.result = "Err"
     /\ Did(ret.frame, "request"))
        => rlimit = ret.frame.new_limit

\* C20: promote_thread_to_real_time_internal and its wrapper return Ok or Err
\* and never abort, for every pair of inputs whose product
\* buffer_frames * 1_000_000 fits 32 bits: audio_samplerate_hz = 0 and
\* audio_buffer_frames = 0 with audio_samplerate_hz < 20 included.
C20_PromoteNeverAborts ==
    ~MulOverflows(buffer_frames(args.audio_buffer_frames, args.audio_samplerate_hz))
        => /\ ~(Promoting /\ ret.result = "panic")
           /\ \A t \in Threads : pc[t] # "panicked"

=============================================================================


